---- MODULE Spec2Model ----
(***************************************************************************)
(* Knaive-Bayes (src/src/main.rs): training of the Naive Bayes             *)
(* probabilities, the log10 classification rule and the 10-fold            *)
(* cross-validation loop of main.                                          *)
(*                                                                         *)
(* Paths are sequences of path fragments ("part", "1", "\\", "spmsg", ...) *)
(* and String::contains is substring search over these sequences.          *)
(* f64 values are exact rationals in lowest terms or NaN; a log10 value    *)
(* is represented by the rational whose logarithm it is, by -infinity or   *)
(* by NaN, so adding logarithms multiplies the rationals.                  *)
(***************************************************************************)
EXTENDS Integers, Sequences, FiniteSets, TLC

\* ------------------------------------------------------------- bounds
MaxDocs == 2      \* files under the dataset directory
MaxTok  == 1      \* largest numeric word of a file
MaxLen  == 1      \* words per file

\* `for i in 1..11` and the division by 10.0
K == 10

VARIABLES
    fs,                 \* the file system: path -> [ok, words]
    filenames,          \* result of visit_dirs
    pc,                 \* position in main
    used,               \* main: the files not flagged "unused"
    i,                  \* main: fold number
    test, train,        \* main: the partition of the current fold
    j,                  \* index of the next doc in the running `for doc`
    total, spam, legit, n_spam, n_legit,             \* learn_naive_bayes
    word_set, occurences_spam, occurences_legit,     \* learn_naive_bayes
    probabilities,      \* main: the NaiveBayesProbabilities of the fold
    true_positive, false_positive, true_negative, false_negative,
    score_spam, score_legit, verdict,   \* last call of classified_as_spam
    recall, precision,  \* main: the accumulators
    hist                \* per finished fold: its sets and its counters

vars == <<fs, filenames, pc, used, i, test, train, j, total, spam, legit,
          n_spam, n_legit, word_set, occurences_spam, occurences_legit,
          probabilities, true_positive, false_positive, true_negative,
          false_negative, score_spam, score_legit, verdict, recall,
          precision, hist>>

\* ------------------------------------------------------------- f64
RECURSIVE GCD(_, _)
GCD(a, b) == IF b = 0 THEN a ELSE GCD(b, a % b)

NaN == [nan |-> TRUE, n |-> 0, d |-> 0]

\* n as f64 / d as f64, for n >= 0 and d >= 0 with n = 0 whenever d = 0
FDiv(n, d) ==
    IF d = 0 THEN NaN
    ELSE LET g == GCD(n, d) IN [nan |-> FALSE, n |-> n \div g, d |-> d \div g]

FZero == FDiv(0, 1)

FAdd(a, b) ==
    IF a.nan \/ b.nan THEN NaN ELSE FDiv(a.n * b.d + b.n * a.d, a.d * b.d)

\* a / k for a positive integer constant k
FDivBy(a, k) == IF a.nan THEN NaN ELSE FDiv(a.n, a.d * k)

LNaN   == [k |-> "nan", n |-> 0, d |-> 0]
NegInf == [k |-> "ninf", n |-> 0, d |-> 0]
LZero  == [k |-> "fin", n |-> 1, d |-> 1]

Log10(x) ==
    IF x.nan THEN LNaN
    ELSE IF x.n = 0 THEN NegInf
    ELSE [k |-> "fin", n |-> x.n, d |-> x.d]

LAdd(a, b) ==
    IF a.k = "nan" \/ b.k = "nan" THEN LNaN
    ELSE IF a.k = "ninf" \/ b.k = "ninf" THEN NegInf
    ELSE LET g == GCD(a.n * b.n, a.d * b.d)
         IN  [k |-> "fin", n |-> (a.n * b.n) \div g, d |-> (a.d * b.d) \div g]

\* a >= b on f64: false as soon as one side is NaN
LGe(a, b) ==
    /\ a.k # "nan" /\ b.k # "nan"
    /\ \/ b.k = "ninf"
       \/ a.k = "fin" /\ b.k = "fin" /\ a.n * b.d >= b.n * a.d

RECURSIVE SumOver(_, _)
SumOver(S, f) ==
    IF S = {} THEN 0
    ELSE LET x == CHOOSE y \in S : TRUE IN f[x] + SumOver(S \ {x}, f)

\* ------------------------------------------------------------- paths
Contains(s, sub) ==
    \E k \in 0..(Len(s) - Len(sub)) : SubSeq(s, k + 1, k + Len(sub)) = sub

DigitChar == <<"0", "1", "2", "3", "4", "5", "6", "7", "8", "9">>

RECURSIVE Digits(_)
Digits(n) ==
    IF n < 10 THEN <<DigitChar[n + 1]>>
    ELSE Digits(n \div 10) \o <<DigitChar[(n % 10) + 1]>>

\* format!("part{}\\", i)
FoldMarker(f) == <<"part">> \o Digits(f) \o <<"\\">>

IsUnused(path) == Contains(path, <<"unused">>)
IsSpamPath(path) == Contains(path, <<"spmsg">>)
InFold(path, f) == Contains(path, FoldMarker(f))

\* ------------------------------------------------------------- files
\* A file is a sequence of whitespace-separated words. Numeric words are
\* the integers; NonNumeric stands for a word such as "Subject:", which does
\* not parse as u32 (neither does the literal -1).
NonNumeric == -1

Words == 1..MaxTok

RECURSIVE SeqsUpTo(_, _)
SeqsUpTo(S, n) ==
    IF n = 0 THEN {<<>>}
    ELSE LET P == SeqsUpTo(S, n - 1)
         IN  P \cup {Append(s, w) : s \in {p \in P : Len(p) = n - 1}, w \in S}

Unreadable == [ok |-> FALSE, words |-> <<>>]

FileContents ==
    {Unreadable} \cup {[ok |-> TRUE, words |-> s] : s \in SeqsUpTo(Words, MaxLen)}

ParsesAsU32(w) == w >= 0

file_to_array(filename) ==
    IF fs[filename].ok
    THEN [ok |-> TRUE, doc |-> SelectSeq(fs[filename].words, ParsesAsU32)]
    ELSE [ok |-> FALSE, doc |-> <<>>]

\* ------------------------------------------------------------- learn_naive_bayes
EmptyMap == [w \in {} |-> 0]

Range(s) == {s[k] : k \in 1..Len(s)}

\* *m.entry(word).or_insert(1) += 1
IncrOcc(m, word) ==
    LET e == IF word \in DOMAIN m THEN m ELSE m @@ (word :> 1)
    IN  [e EXCEPT ![word] = @ + 1]

\* the `for word in example` loop on one class's counters
RECURSIVE CountWords(_, _)
CountWords(example, acc) ==
    IF example = <<>> THEN acc
    ELSE CountWords(Tail(example),
                    [occ |-> IncrOcc(acc.occ, Head(example)), n |-> acc.n + 1])

\* a map without Laplace smoothing for the words the class never saw
WordProbNoFloor(occ, word, divisor) ==
    IF word \in DOMAIN occ
    THEN FDiv(1 + occ[word], divisor)
    ELSE FDiv(0, divisor)

WordProb(occ, word, divisor) ==
    IF word \in DOMAIN occ
    THEN FDiv(1 + occ[word], divisor)
    ELSE FDiv(1, divisor)

\* a model with the two word maps exchanged
NaiveBayesProbabilitiesSwapped ==
    LET spam_divisor  == n_spam + Cardinality(word_set)
        legit_divisor == n_legit + Cardinality(word_set)
    IN  [spam       |-> FDiv(spam, total),
         legit      |-> FDiv(legit, total),
         word_spam  |-> [w \in word_set |-> WordProb(occurences_legit, w, legit_divisor)],
         word_legit |-> [w \in word_set |-> WordProb(occurences_spam, w, spam_divisor)]]

NaiveBayesProbabilities ==
    LET spam_divisor  == n_spam + Cardinality(word_set)
        legit_divisor == n_legit + Cardinality(word_set)
    IN  [spam       |-> FDiv(spam, total),
         legit      |-> FDiv(legit, total),
         word_spam  |-> [w \in word_set |-> WordProb(occurences_spam, w, spam_divisor)],
         word_legit |-> [w \in word_set |-> WordProb(occurences_legit, w, legit_divisor)]]

NoModel == [spam |-> NaN, legit |-> NaN, word_spam |-> EmptyMap, word_legit |-> EmptyMap]

\* ------------------------------------------------------------- classified_as_spam
\* a loop that gives a word absent from the map the probability 1 / (|map| + 1)
RECURSIVE LogSumSmoothed(_, _, _)
LogSumSmoothed(doc, m, acc) ==
    IF doc = <<>> THEN acc
    ELSE LogSumSmoothed(Tail(doc), m,
            IF Head(doc) \in DOMAIN m
            THEN LAdd(acc, Log10(m[Head(doc)]))
            ELSE LAdd(acc, Log10(FDiv(1, Cardinality(DOMAIN m) + 1))))

\* the `for word in doc` loop on one class's map
RECURSIVE LogSum(_, _, _)
LogSum(doc, m, acc) ==
    IF doc = <<>> THEN acc
    ELSE LogSum(Tail(doc), m,
                IF Head(doc) \in DOMAIN m THEN LAdd(acc, Log10(m[Head(doc)])) ELSE acc)

\* a decision rule with > in place of >=
classified_as_spam_strict(filename, p) ==
    LET r == file_to_array(filename)
        s == LogSum(r.doc, p.word_spam, LZero)
        l == LogSum(r.doc, p.word_legit, LZero)
    IN  [ok    |-> r.ok,
         spam  |-> s,
         legit |-> l,
         res   |-> ~LGe(LAdd(l, Log10(p.legit)), LAdd(s, Log10(p.spam)))]

classified_as_spam(filename, p) ==
    LET r == file_to_array(filename)
        s == LogSum(r.doc, p.word_spam, LZero)
        l == LogSum(r.doc, p.word_legit, LZero)
    IN  [ok    |-> r.ok,
         spam  |-> s,
         legit |-> l,
         res   |-> LGe(LAdd(s, Log10(p.spam)), LAdd(l, Log10(p.legit)))]

\* ------------------------------------------------------------- main
\* no partition: every file is used
UsedOfAll(names) == names

\* filenames.into_iter().partition(|x| ...contains("unused")), second half
UsedOf(names) == SelectSeq(names, LAMBDA x : ~IsUnused(x))

TestOf(names, f)  == SelectSeq(names, LAMBDA x : InFold(x, f))
TrainOf(names, f) == SelectSeq(names, LAMBDA x : ~InFold(x, f))

Win(dir, kind, name) == <<"part">> \o Digits(dir) \o <<"\\", kind, name>>

AllPaths ==
    << Win(1, "spmsg", "a"),
       Win(1, "legit", "a"),
       Win(2, "legit", "a"),
       Win(10, "spmsg", "a"),
       <<"part", "1", "/", "legit", "a">>,
       <<"unused", "\\", "part", "1", "\\", "spmsg", "a">> >>

RECURSIVE PathsOf(_)
PathsOf(S) ==
    IF S = {} THEN <<>>
    ELSE LET m == CHOOSE x \in S : \A y \in S : x <= y
         IN  <<AllPaths[m]>> \o PathsOf(S \ {m})

\* The end-to-end corpus: two spam files "Subject: 1 2", "Subject: 2 3" and
\* two legit files "Subject: 4", "Subject: 4 5" in part1, one file in part2.
ScenarioTrain ==
    (Win(1, "spmsg", "a") :> [ok |-> TRUE, words |-> <<NonNumeric, 1, 2>>]) @@
    (Win(1, "spmsg", "b") :> [ok |-> TRUE, words |-> <<NonNumeric, 2, 3>>]) @@
    (Win(1, "legit", "a") :> [ok |-> TRUE, words |-> <<NonNumeric, 4>>]) @@
    (Win(1, "legit", "b") :> [ok |-> TRUE, words |-> <<NonNumeric, 4, 5>>])

ScenarioNames ==
    <<Win(1, "spmsg", "a"), Win(1, "spmsg", "b"),
      Win(1, "legit", "a"), Win(1, "legit", "b")>>

ScenarioTests ==
    {Unreadable} \cup
    {[ok |-> TRUE, words |-> s] :
        s \in {<<1, 2>>, <<NonNumeric, 1, 2>>, <<>>, <<NonNumeric>>, <<6>>, <<6, 7>>,
               <<4>>, <<1, 4>>, <<3, 5>>, <<4, 1, 5, 2>>}}

\* A corpus with one spam and one legit file in each of part1 .. part10.
\* The files hold "1" (spam) and "2" (legit), except the two files of part1
\* and the spam file of part2, which vary.
RECURSIVE TenFoldNames(_)
TenFoldNames(f) ==
    IF f = 0 THEN <<>>
    ELSE TenFoldNames(f - 1) \o <<Win(f, "spmsg", "a"), Win(f, "legit", "a")>>

TenFoldVarying ==
    {Win(1, "spmsg", "a"), Win(1, "legit", "a"), Win(2, "spmsg", "a")}

TenFoldContents ==
    {Unreadable} \cup {[ok |-> TRUE, words |-> s] : s \in {<<>>, <<1>>, <<2>>, <<1, 2>>}}

TenFoldFixed(path) ==
    [ok |-> TRUE, words |-> IF IsSpamPath(path) THEN <<1>> ELSE <<2>>]

InitLocals ==
    /\ pc = "start"
    /\ used = <<>> /\ i = 0 /\ test = <<>> /\ train = <<>> /\ j = 0
    /\ total = 0 /\ spam = 0 /\ legit = 0 /\ n_spam = 0 /\ n_legit = 0
    /\ word_set = {} /\ occurences_spam = EmptyMap /\ occurences_legit = EmptyMap
    /\ probabilities = NoModel
    /\ true_positive = 0 /\ false_positive = 0
    /\ true_negative = 0 /\ false_negative = 0
    /\ score_spam = LZero /\ score_legit = LZero /\ verdict = "none"
    /\ recall = FZero /\ precision = FZero
    /\ hist = <<>>

InitCorpus ==
    \E S \in SUBSET (1..Len(AllPaths)) :
        /\ Cardinality(S) <= MaxDocs
        /\ filenames = PathsOf(S)
        /\ fs \in [Range(PathsOf(S)) -> FileContents]

InitScenario ==
    \E kind \in {"spmsg", "legit"}, c \in ScenarioTests :
        /\ filenames = Append(ScenarioNames, Win(2, kind, "a"))
        /\ fs = ScenarioTrain @@ (Win(2, kind, "a") :> c)

InitTenFold ==
    \E v \in [TenFoldVarying -> TenFoldContents] :
        /\ filenames = TenFoldNames(K)
        /\ fs = [path \in Range(TenFoldNames(K)) |->
                    IF path \in TenFoldVarying THEN v[path] ELSE TenFoldFixed(path)]

Init == (InitCorpus \/ InitScenario \/ InitTenFold) /\ InitLocals

\* main, lines 223-226
Start ==
    /\ pc = "start"
    /\ used' = UsedOf(filenames)
    /\ recall' = FZero /\ precision' = FZero
    /\ i' = 1
    /\ pc' = "fold"
    /\ UNCHANGED <<fs, filenames, test, train, j, total, spam, legit, n_spam,
                   n_legit, word_set, occurences_spam, occurences_legit,
                   probabilities, true_positive, false_positive, true_negative,
                   false_negative, score_spam, score_legit, verdict, hist>>

\* main, line 230, and the entry of learn_naive_bayes, lines 75-84
Partition ==
    /\ pc = "fold" /\ i <= K
    /\ test' = TestOf(used, i)
    /\ train' = TrainOf(used, i)
    /\ total' = 0 /\ spam' = 0 /\ legit' = 0 /\ n_spam' = 0 /\ n_legit' = 0
    /\ word_set' = {} /\ occurences_spam' = EmptyMap /\ occurences_legit' = EmptyMap
    /\ j' = 1
    /\ pc' = "learn"
    /\ UNCHANGED <<fs, filenames, used, i, probabilities, true_positive,
                   false_positive, true_negative, false_negative, score_spam,
                   score_legit, verdict, recall, precision, hist>>

\* learn_naive_bayes: one readable doc of the `for doc` loop
LearnOk ==
    /\ pc = "learn" /\ j <= Len(train)
    /\ file_to_array(train[j]).ok
    /\ LET example == file_to_array(train[j]).doc
           is_spam == IsSpamPath(train[j])
           s == CountWords(example, [occ |-> occurences_spam, n |-> n_spam])
           l == CountWords(example, [occ |-> occurences_legit, n |-> n_legit])
       IN  /\ total' = total + 1
           /\ spam' = IF is_spam THEN spam + 1 ELSE spam
           /\ legit' = IF is_spam THEN legit ELSE legit + 1
           /\ word_set' = word_set \cup Range(example)
           /\ occurences_spam' = IF is_spam THEN s.occ ELSE occurences_spam
           /\ n_spam' = IF is_spam THEN s.n ELSE n_spam
           /\ occurences_legit' = IF is_spam THEN occurences_legit ELSE l.occ
           /\ n_legit' = IF is_spam THEN n_legit ELSE l.n
    /\ j' = j + 1
    /\ UNCHANGED <<fs, filenames, pc, used, i, test, train, probabilities,
                   true_positive, false_positive, true_negative, false_negative,
                   score_spam, score_legit, verdict, recall, precision, hist>>

\* learn_naive_bayes: Err(e) => println
LearnErr ==
    /\ pc = "learn" /\ j <= Len(train)
    /\ ~file_to_array(train[j]).ok
    /\ j' = j + 1
    /\ UNCHANGED <<fs, filenames, pc, used, i, test, train, total, spam, legit,
                   n_spam, n_legit, word_set, occurences_spam, occurences_legit,
                   probabilities, true_positive, false_positive, true_negative,
                   false_negative, score_spam, score_legit, verdict, recall,
                   precision, hist>>

\* learn_naive_bayes, lines 117-140, and the entry of test_naive_bayes
LearnFinish ==
    /\ pc = "learn" /\ j > Len(train)
    /\ probabilities' = NaiveBayesProbabilities
    /\ true_positive' = 0 /\ false_positive' = 0
    /\ true_negative' = 0 /\ false_negative' = 0
    /\ j' = 1
    /\ pc' = "test"
    /\ UNCHANGED <<fs, filenames, used, i, test, train, total, spam, legit,
                   n_spam, n_legit, word_set, occurences_spam, occurences_legit,
                   score_spam, score_legit, verdict, recall, precision, hist>>

\* test_naive_bayes: Ok(true) and Ok(false)
TestOk ==
    /\ pc = "test" /\ j <= Len(test)
    /\ LET c == classified_as_spam(test[j], probabilities)
           is_spam == IsSpamPath(test[j])
       IN  /\ c.ok
           /\ score_spam' = c.spam /\ score_legit' = c.legit
           /\ verdict' = IF c.res THEN "spam" ELSE "legit"
           /\ true_positive'  = IF c.res /\ is_spam THEN true_positive + 1 ELSE true_positive
           /\ false_positive' = IF c.res /\ ~is_spam THEN false_positive + 1 ELSE false_positive
           /\ false_negative' = IF ~c.res /\ is_spam THEN false_negative + 1 ELSE false_negative
           /\ true_negative'  = IF ~c.res /\ ~is_spam THEN true_negative + 1 ELSE true_negative
    /\ j' = j + 1
    /\ UNCHANGED <<fs, filenames, pc, used, i, test, train, total, spam, legit,
                   n_spam, n_legit, word_set, occurences_spam, occurences_legit,
                   probabilities, recall, precision, hist>>

\* an unreadable file counted as a missed spam
TestErrCounted ==
    /\ pc = "test" /\ j <= Len(test)
    /\ ~classified_as_spam(test[j], probabilities).ok
    /\ verdict' = "err"
    /\ false_negative' = false_negative + 1
    /\ j' = j + 1
    /\ UNCHANGED <<fs, filenames, pc, used, i, test, train, total, spam, legit,
                   n_spam, n_legit, word_set, occurences_spam, occurences_legit,
                   probabilities, true_positive, false_positive, true_negative,
                   score_spam, score_legit, recall, precision, hist>>

\* test_naive_bayes: Err(e) => println
TestErr ==
    /\ pc = "test" /\ j <= Len(test)
    /\ ~classified_as_spam(test[j], probabilities).ok
    /\ verdict' = "err"
    /\ j' = j + 1
    /\ UNCHANGED <<fs, filenames, pc, used, i, test, train, total, spam, legit,
                   n_spam, n_legit, word_set, occurences_spam, occurences_legit,
                   probabilities, true_positive, false_positive, true_negative,
                   false_negative, score_spam, score_legit, recall, precision, hist>>

\* ratios over the counts pooled with the folds before
MetricsPooled ==
    LET tp == true_positive + SumOver(1..Len(hist), [f \in 1..Len(hist) |-> hist[f].tp])
        fn == false_negative + SumOver(1..Len(hist), [f \in 1..Len(hist) |-> hist[f].fn])
        fp == false_positive + SumOver(1..Len(hist), [f \in 1..Len(hist) |-> hist[f].fp])
    IN  [r |-> FDiv(tp, tp + fn), p |-> FDiv(tp, tp + fp)]

\* test_naive_bayes, lines 210-211
Metrics ==
    [r |-> FDiv(true_positive, true_positive + false_negative),
     p |-> FDiv(true_positive, true_positive + false_positive)]

\* the return of test_naive_bayes and main, lines 232-234
TestFinish ==
    /\ pc = "test" /\ j > Len(test)
    /\ recall' = FAdd(recall, Metrics.r)
    /\ precision' = FAdd(precision, Metrics.p)
    /\ hist' = Append(hist, [test |-> test, train |-> train,
                             tp |-> true_positive, fp |-> false_positive,
                             fn |-> false_negative, tn |-> true_negative])
    /\ i' = i + 1
    /\ pc' = "fold"
    /\ UNCHANGED <<fs, filenames, used, test, train, j, total, spam, legit,
                   n_spam, n_legit, word_set, occurences_spam, occurences_legit,
                   probabilities, true_positive, false_positive, true_negative,
                   false_negative, score_spam, score_legit, verdict>>

\* main, lines 236-238
Average ==
    /\ pc = "fold" /\ i > K
    /\ recall' = FDivBy(recall, 10)
    /\ precision' = FDivBy(precision, 10)
    /\ pc' = "done"
    /\ UNCHANGED <<fs, filenames, used, i, test, train, j, total, spam, legit,
                   n_spam, n_legit, word_set, occurences_spam, occurences_legit,
                   probabilities, true_positive, false_positive, true_negative,
                   false_negative, score_spam, score_legit, verdict, hist>>

Next ==
    \/ Start
    \/ Partition
    \/ LearnOk
    \/ LearnErr
    \/ LearnFinish
    \/ TestOk
    \/ TestErr
    \/ TestFinish
    \/ Average

Spec == Init /\ [][Next]_vars

\* ------------------------------------------------------------- properties
\* The quantities the properties speak of, stated from the files alone.
Readable(path) == fs[path].ok

Tokens(path) == SelectSeq(fs[path].words, LAMBDA w : w \in Nat)

Class(path) == IF IsSpamPath(path) THEN "spam" ELSE "legit"

\* the readable documents of class c among names[1..n]
DocsOf(names, n, c) ==
    {k \in 1..n : Readable(names[k]) /\ Class(names[k]) = c}

CountIn(doc, t) == Cardinality({k \in 1..Len(doc) : doc[k] = t})

\* occ_c(t): occurrences of t in the readable documents of class c
Occ(names, c, t) ==
    SumOver(DocsOf(names, Len(names), c),
            [k \in 1..Len(names) |-> CountIn(Tokens(names[k]), t)])

\* n_c: token occurrences in class c
TokenTotal(names, c) ==
    SumOver(DocsOf(names, Len(names), c),
            [k \in 1..Len(names) |-> Len(Tokens(names[k]))])

\* V: the training vocabulary
Vocabulary(names) ==
    UNION {Range(Tokens(names[k])) : k \in {m \in 1..Len(names) : Readable(names[m])}}

Laplace(names, c, t) ==
    FDiv(1 + Occ(names, c, t), TokenTotal(names, c) + Cardinality(Vocabulary(names)))

Floor(names, c) ==
    FDiv(1, TokenTotal(names, c) + Cardinality(Vocabulary(names)))

Trained == pc = "test"

\* C1: after training on a set with at least one document, every token t of
\* the training vocabulary has p(t|c) = (1 + occ_c(t)) / (n_c + |V|) in both
\* classes, occ_c(t) being the exact number of occurrences of t in class c.
C1_LaplaceEstimate ==
    (Trained /\ Len(train) >= 1) =>
        \A t \in Vocabulary(train) :
            /\ t \in DOMAIN probabilities.word_spam
            /\ t \in DOMAIN probabilities.word_legit
            /\ probabilities.word_spam[t] = Laplace(train, "spam", t)
            /\ probabilities.word_legit[t] = Laplace(train, "legit", t)

\* C10: the key sets of word_spam and word_legit are both the training
\* vocabulary, every stored probability is strictly positive, and a token
\* never seen in class c has the floor value 1 / (n_c + |V|) in that class.
C10_KeysPositiveFloor ==
    Trained =>
        /\ DOMAIN probabilities.word_spam = Vocabulary(train)
        /\ DOMAIN probabilities.word_legit = Vocabulary(train)
        /\ \A t \in Vocabulary(train) :
            /\ ~probabilities.word_spam[t].nan /\ probabilities.word_spam[t].n > 0
            /\ ~probabilities.word_legit[t].nan /\ probabilities.word_legit[t].n > 0
            /\ Occ(train, "spam", t) = 0 =>
                   probabilities.word_spam[t] = Floor(train, "spam")
            /\ Occ(train, "legit", t) = 0 =>
                   probabilities.word_legit[t] = Floor(train, "legit")

\* a model with a token seen in one class only and a token seen in both
C10_Witness ==
    /\ Trained
    /\ \E t \in Vocabulary(train) :
           Occ(train, "legit", t) = 0 /\ Occ(train, "spam", t) > 0
    /\ \E t \in Vocabulary(train) :
           Occ(train, "spam", t) = 0 /\ Occ(train, "legit", t) > 0
    /\ \E t \in Vocabulary(train) :
           Occ(train, "spam", t) > 0 /\ Occ(train, "legit", t) > 0

\* The document classified last: test[j - 1], while the test loop runs.
Classified == pc = "test" /\ j > 1 /\ verdict \in {"spam", "legit"}

LastDoc == Tokens(test[j - 1])

\* log10 of m[t] added once per occurrence of t in doc, for the tokens of T
RECURSIVE LogOfPower(_, _)
LogOfPower(x, n) == IF n = 0 THEN LZero ELSE LAdd(Log10(x), LogOfPower(x, n - 1))

RECURSIVE LogOverTokens(_, _, _)
LogOverTokens(T, doc, m) ==
    IF T = {} THEN LZero
    ELSE LET t == CHOOSE x \in T : TRUE
         IN  LAdd(LogOfPower(m[t], CountIn(doc, t)), LogOverTokens(T \ {t}, doc, m))

\* score_c = log10(p_c) + the sum of log10 p(t|c) over the occurrences in
\* doc of the tokens of the model
ScoreOf(doc, prior, m) ==
    LAdd(Log10(prior), LogOverTokens(DOMAIN m \cap Range(doc), doc, m))

ScoreSpam  == ScoreOf(LastDoc, probabilities.spam, probabilities.word_spam)
ScoreLegit == ScoreOf(LastDoc, probabilities.legit, probabilities.word_legit)

\* C3: a readable document is classified as spam if and only if
\* score_spam >= score_legit; in particular it is spam when the two scores
\* are equal.
C3_SpamIffScoreGe ==
    Classified => ((verdict = "spam") <=> LGe(ScoreSpam, ScoreLegit))

\* a tie of two finite scores over a document with tokens of the model
C3_Witness ==
    /\ Classified
    /\ ScoreSpam.k = "fin" /\ ScoreSpam = ScoreLegit
    /\ Range(LastDoc) \cap DOMAIN probabilities.word_spam # {}
    /\ verdict = "spam"

\* p >= q on the priors
FGe(a, b) == ~a.nan /\ ~b.nan /\ a.n * b.d >= b.n * a.d

\* C7: for a readable document none of whose tokens is in the training
\* vocabulary (the empty document included) both token sums are zero, and
\* the document is spam if and only if p_spam >= p_legit.
C7_PriorsOnly ==
    (Classified /\ Range(LastDoc) \cap Vocabulary(train) = {}) =>
        /\ score_spam = LZero
        /\ score_legit = LZero
        /\ (verdict = "spam") <=> FGe(probabilities.spam, probabilities.legit)

\* a non-empty document of unknown tokens against a non-empty vocabulary
C7_Witness ==
    /\ Classified
    /\ LastDoc # <<>>
    /\ Vocabulary(train) # {}
    /\ Range(LastDoc) \cap Vocabulary(train) = {}
    /\ verdict = "spam"

\* the readable documents of names as a bag of (class, tokens)
LabelledDocs(names) ==
    [c \in {"spam", "legit"} |->
        {Tokens(names[k]) : k \in DocsOf(names, Len(names), c)}]

TrainedOnScenario ==
    /\ Cardinality(DocsOf(train, Len(train), "spam")) = 2
    /\ Cardinality(DocsOf(train, Len(train), "legit")) = 2
    /\ LabelledDocs(train) = [c \in {"spam", "legit"} |->
            IF c = "spam" THEN {<<1, 2>>, <<2, 3>>} ELSE {<<4>>, <<4, 5>>}]

\* C8: trained on the spam documents [1,2], [2,3] and the legit documents
\* [4], [4,5], the token sequence [1,2] is classified as spam, with a spam
\* score strictly higher than the legit score.
C8_ScenarioIsSpam ==
    (Classified /\ TrainedOnScenario /\ LastDoc = <<1, 2>>) =>
        /\ verdict = "spam"
        /\ ~LGe(ScoreLegit, ScoreSpam)

C8_Witness ==
    Classified /\ TrainedOnScenario /\ LastDoc = <<1, 2>> /\ verdict = "spam"

Flagged(path) == "unused" \in Range(path)

Usable == {path \in Range(filenames) : ~Flagged(path)}

ReadableIn(names, n) == {k \in 1..n : Readable(names[k])}

\* C2: every usable document is in the test set of exactly one fold and in
\* the training set of every other fold.
C2_ExactlyOneTestFold ==
    pc = "done" =>
        \A path \in Usable :
            /\ Cardinality({f \in 1..K : path \in Range(hist[f].test)}) = 1
            /\ \A f \in 1..K :
                   path \notin Range(hist[f].test) => path \in Range(hist[f].train)

\* C4: a fold with TP + FN = 0 or TP + FP = 0 never makes the averaged
\* recall or precision the non-numeric result of a division by zero.
C4_NoSilentNaN ==
    pc = "done" => (~recall.nan /\ ~precision.nan)

\* C5: a document flagged "unused" is in no fold's training or test set
\* and adds to no document count, token count, vocabulary entry or
\* confusion counter.
C5_UnusedExcluded ==
    /\ \A path \in Range(filenames) :
           Flagged(path) =>
               /\ path \notin Range(used) \cup Range(test) \cup Range(train)
               /\ \A f \in 1..Len(hist) :
                      path \notin Range(hist[f].test) \cup Range(hist[f].train)
    /\ pc = "learn" =>
           LET seen == SubSeq(train, 1, j - 1)
           IN  /\ Range(seen) \subseteq Usable
               /\ total = Cardinality(ReadableIn(seen, Len(seen)))
               /\ n_spam = TokenTotal(seen, "spam")
               /\ n_legit = TokenTotal(seen, "legit")
               /\ word_set = Vocabulary(seen)
    /\ pc = "test" =>
           /\ Range(test) \subseteq Usable
           /\ true_positive + false_positive + true_negative + false_negative
                  <= j - 1

\* a run that ended with a readable, non-empty unused file beside a used one
C5_Witness ==
    /\ pc = "done"
    /\ Usable # {}
    /\ \E path \in Range(filenames) :
           Flagged(path) /\ Readable(path) /\ Tokens(path) # <<>>

Counters ==
    <<true_positive, false_positive, false_negative, true_negative>>

C6_Step ==
    (pc = "test" /\ j <= Len(test)) =>
        /\ pc' = "test" /\ j' = j + 1 /\ test' = test
        /\ IF ~Readable(test[j])
           THEN Counters' = Counters
           ELSE LET pred == verdict' = "spam"
                    real == Class(test[j]) = "spam"
                    One(b) == IF b THEN 1 ELSE 0
                IN  /\ verdict' \in {"spam", "legit"}
                    /\ true_positive'  = true_positive  + One(pred /\ real)
                    /\ false_positive' = false_positive + One(pred /\ ~real)
                    /\ false_negative' = false_negative + One(~pred /\ real)
                    /\ true_negative'  = true_negative  + One(~pred /\ ~real)

\* C6: an unreadable test document increments no confusion counter and
\* does not stop the run; every readable test document increments exactly
\* the counter of its (predicted, true) pair.
C6_ErrorsSkipped ==
    /\ [][C6_Step]_vars
    /\ [](pc = "test" =>
            true_positive + false_positive + false_negative + true_negative
                = Cardinality(ReadableIn(test, j - 1)))

\* an unreadable document was skipped and a later one of the fold counted
C6_Witness ==
    /\ pc = "test" /\ j > 2
    /\ ~Readable(test[j - 2])
    /\ Readable(test[j - 1])
    /\ true_positive + false_positive + false_negative + true_negative = 1

\* the sum of s[1..n], added in increasing index order
RECURSIVE FSum(_, _)
FSum(s, n) == IF n = 0 THEN FZero ELSE FAdd(FSum(s, n - 1), s[n])

FoldRecall    == [f \in 1..Len(hist) |-> FDiv(hist[f].tp, hist[f].tp + hist[f].fn)]
FoldPrecision == [f \in 1..Len(hist) |-> FDiv(hist[f].tp, hist[f].tp + hist[f].fp)]

\* C9: the reported recall and precision are the sums, in fold order, of
\* the per-fold TP/(TP+FN) and TP/(TP+FP) divided by the number of folds,
\* each fold's counters counting only that fold's test documents.
C9_MeanOfFolds ==
    pc = "done" =>
        /\ Len(hist) = K
        /\ recall = FDivBy(FSum(FoldRecall, Len(hist)), Len(hist))
        /\ precision = FDivBy(FSum(FoldPrecision, Len(hist)), Len(hist))
        /\ \A f \in 1..Len(hist) :
               LET h == hist[f]
               IN  /\ h.test = TestOf(used, f)
                   /\ h.tp + h.fn = Cardinality(DocsOf(h.test, Len(h.test), "spam"))
                   /\ h.fp + h.tn = Cardinality(DocsOf(h.test, Len(h.test), "legit"))

\* numeric means over folds whose values differ
C9_Witness ==
    /\ pc = "done"
    /\ ~recall.nan /\ recall.n > 0 /\ recall.n < recall.d
    /\ ~precision.nan /\ precision.n > 0 /\ precision.n < precision.d

====
